---- MODULE Spec2Model ----
(***************************************************************************)
(* Model of Time_Series_Forecasting/Energy_Consumption_Exercise.ipynb:     *)
(* the helper functions of the notebook (make_time_series,                 *)
(* create_training_series, series_to_json_obj, write_json_dataset,         *)
(* json_predictor_input, decode_prediction), the cells that preprocess     *)
(* the text file, resample it over days, write the JSON files, prepare the *)
(* "future" request and build the series of 2010, and the top-to-bottom    *)
(* execution of the notebook's code cells.  txt_preprocessing.py is not    *)
(* among the sources: create_df and fill_nan_with_mean follow what the     *)
(* notebook and the specification say of them.                             *)
(*                                                                         *)
(* Python values are tagged records ([type |-> "list", items |-> ...]),    *)
(* JSON text is a sequence of tokens (json.dumps' separators ", " and      *)
(* ": " are the tokens "," and ":"), a day is its number of days since     *)
(* 2000-01-01, and a pandas Series is its index and its values.  The       *)
(* notebook was written for Python 3.6 and the pandas of that time, where  *)
(* pd.DatetimeIndex(start=, end=, freq=) builds a date range and           *)
(* pd.Series(data=<Series>, index=<index>) re-indexes the data by label.   *)
(***************************************************************************)
EXTENDS Integers, Sequences, FiniteSets, TLC

VARIABLES
  call,   \* the function or cell applied last ("none" before the first)
  args,   \* the arguments it was applied to
  ret,    \* its outcome: a returned value or a raised exception
  files,  \* the local files written so far: file name -> bytes
  history,\* notebook run: the code cells started, in order, each with the
          \* exception it raised, or "none"
  nb      \* notebook run: the kernel's global names -> values

vars == <<call, args, ret, files, history, nb>>

-----------------------------------------------------------------------------
(* Bounds of the model *)

MaxSeries == 2

MaxLen == 2

MaxYears == 2

\* the number of days of the daily series make_time_series is applied to
\* (2006-12-16 to 2010-11-26 in the data set the notebook downloads)
DfLen == 1442

Vals == {0, 1}

\* the columns and the rows of the text table given to create_df
MaxCols == 2

MaxRows == 2

\* the calendar days the minute series given to resample may span
MaxDays == 3

-----------------------------------------------------------------------------
(* Python values and outcomes *)

None == [type |-> "NoneType"]

PyStr(s) == [type |-> "str", s |-> s]

PyNum(n) == [type |-> "num", n |-> n]

PyList(items) == [type |-> "list", items |-> items]

PyDict(pairs) == [type |-> "dict", pairs |-> pairs]

PyBytes(data) == [type |-> "bytes", data |-> data]

Series(index, values) == [type |-> "Series", index |-> index, values |-> values]

Return(v) == [raised |-> FALSE, value |-> v]

Raise(e) == [raised |-> TRUE, exc |-> e]

\* numpy's NaN, the value of a label that has no data; every real value of
\* the power series is >= 0
NaN == 0 - 1

-----------------------------------------------------------------------------
(* Calendar: what pandas computes from '<year>-01-01' and '<year>-12-31' *)

IsLeap(y) == (y % 4 = 0 /\ y % 100 # 0) \/ y % 400 = 0

\* leap years in 2000 .. y-1
LeapsBefore(y) ==
  IF y <= 2000 THEN 0
  ELSE ((y - 1) \div 4 - 499) - ((y - 1) \div 100 - 19) + ((y - 1) \div 400 - 4)

Jan1(y) == 365 * (y - 2000) + LeapsBefore(y)

\* days of a common year before the first day of month m
CumDays == <<0, 31, 59, 90, 120, 151, 181, 212, 243, 273, 304, 334>>

\* the day pandas parses from the date string 'y-m-d'
DayNumber(y, m, d) ==
  Jan1(y) + CumDays[m] + (IF m > 2 /\ IsLeap(y) THEN 1 ELSE 0) + d - 1

\* pd.DatetimeIndex(start=t_start, end=t_end, freq='D'): every day from
\* t_start to t_end inclusive
DatetimeIndex(t_start, t_end) ==
  [i \in 1..(IF t_end >= t_start THEN t_end - t_start + 1 ELSE 0) |-> t_start + i - 1]

-----------------------------------------------------------------------------
(* pandas Series *)

\* data[start_idx:end_idx] with non-negative integers: positions
\* start_idx .. end_idx-1, clipped to the data
Slice(data, start_idx, end_idx) ==
  LET n  == Len(data.index)
      lo == IF start_idx > n THEN n ELSE start_idx
      hi == IF end_idx > n THEN n ELSE end_idx
  IN  Series(SubSeq(data.index, lo + 1, hi), SubSeq(data.values, lo + 1, hi))

\* the value data holds for label t, NaN when data has no such label; the
\* index of data is a run of consecutive days (freq 'D')
ValueAt(data, t) ==
  LET j == IF Len(data.index) = 0 THEN 0 ELSE t - data.index[1] + 1
  IN  IF j \in 1..Len(data.index) /\ data.index[j] = t THEN data.values[j] ELSE NaN

\* a Series that pairs the data with the index by position, not by label
ReindexedByPosition(data, index) ==
  LET n == IF Len(data.values) < Len(index) THEN Len(data.values) ELSE Len(index)
  IN  Series(SubSeq(index, 1, n), SubSeq(data.values, 1, n))

\* pd.Series(data=data, index=index) with data a Series: data re-indexed
Reindexed(data, index) ==
  Series(index, [i \in 1..Len(index) |-> ValueAt(data, index[i])])

-----------------------------------------------------------------------------
(* make_time_series *)

\* leap = '2008': the one year the function sizes as a leap year
leap == 2008

\* an end_idx that sizes every year as a common year
end_idx_common_year(year, start_idx) == start_idx + 365

\* the loop body's end_idx for one year
end_idx_of(year, start_idx) ==
  IF year = leap THEN start_idx + 366 ELSE start_idx + 365

\* the Series appended for one year: the data slice re-indexed by the
\* year's days, '<year>-01-01' to '<year>-12-31'
year_series(mean_power_df, year, start_idx) ==
  LET end_idx == end_idx_of(year, start_idx)
      t_start == DayNumber(year, 1, 1)
      t_end   == DayNumber(year, 12, 31)
      data    == Slice(mean_power_df, start_idx, end_idx)
      index   == DatetimeIndex(t_start, t_end)
  IN  Reindexed(data, index)

RECURSIVE make_time_series_loop(_, _, _, _, _)
make_time_series_loop(mean_power_df, years, i, start_idx, time_series) ==
  IF i > Len(years) THEN time_series
  ELSE make_time_series_loop(
         mean_power_df, years, i + 1, end_idx_of(years[i], start_idx),
         Append(time_series, year_series(mean_power_df, years[i], start_idx)))

\* the start_idx and end_idx of the data slice of iteration i, i+1, ...
RECURSIVE make_time_series_slices(_, _, _)
make_time_series_slices(years, i, start_idx) ==
  IF i > Len(years) THEN <<>>
  ELSE <<[start_idx |-> start_idx, end_idx |-> end_idx_of(years[i], start_idx)]>>
       \o make_time_series_slices(years, i + 1, end_idx_of(years[i], start_idx))

make_time_series(mean_power_df, years, start_idx) ==
  PyList(make_time_series_loop(mean_power_df, years, 1, start_idx, <<>>))

-----------------------------------------------------------------------------
(* The two exercise functions: their bodies are "pass" *)

\* a function whose body is only "pass" returns None for every argument
create_training_series(complete_time_series, prediction_length) ==
  Return(None)

series_to_json_obj(ts) == None

-----------------------------------------------------------------------------
(* json.dumps, str.encode, and the file written by write_json_dataset *)

P(s) == [k |-> "punct", s |-> s]

Lit(s) == [k |-> "lit", s |-> s]

StrTok(s) == [k |-> "str", s |-> s]

NumTok(n) == [k |-> "num", n |-> n]

\* the character '\n'
NL == P("\n")

RECURSIVE JsonDumps(_), JsonItems(_, _), JsonMembers(_, _)
\* json.dumps(v)
JsonDumps(v) ==
  CASE v.type = "NoneType" -> <<Lit("null")>>
    [] v.type = "str"      -> <<StrTok(v.s)>>
    [] v.type = "num"      -> <<IF v.n = NaN THEN Lit("NaN") ELSE NumTok(v.n)>>
    [] v.type = "list"     -> <<P("[")>> \o JsonItems(v.items, 1) \o <<P("]")>>
    [] v.type = "dict"     -> <<P("{")>> \o JsonMembers(v.pairs, 1) \o <<P("}")>>

JsonItems(items, i) ==
  IF i > Len(items) THEN <<>>
  ELSE (IF i > 1 THEN <<P(",")>> ELSE <<>>)
       \o JsonDumps(items[i]) \o JsonItems(items, i + 1)

JsonMembers(pairs, i) ==
  IF i > Len(pairs) THEN <<>>
  ELSE (IF i > 1 THEN <<P(",")>> ELSE <<>>)
       \o <<StrTok(pairs[i][1]), P(":")>> \o JsonDumps(pairs[i][2])
       \o JsonMembers(pairs, i + 1)

\* text.encode('utf-8'); json.dumps emits ASCII only
Utf8Encode(text) == PyBytes(text)

\* bytes.decode('utf-8')
Utf8Decode(b) == b.data

\* lines joined by '\n', the last one left without its newline
RECURSIVE write_lines_joined(_, _)
write_lines_joined(time_series, i) ==
  IF i > Len(time_series) THEN <<>>
  ELSE (IF i > 1 THEN <<NL>> ELSE <<>>)
       \o JsonDumps(series_to_json_obj(time_series[i]))
       \o write_lines_joined(time_series, i + 1)

\* the bytes the loop of write_json_dataset writes for series i, i+1, ...
RECURSIVE write_lines(_, _)
write_lines(time_series, i) ==
  IF i > Len(time_series) THEN <<>>
  ELSE LET json_line == JsonDumps(series_to_json_obj(time_series[i])) \o <<NL>>
       IN  Utf8Encode(json_line).data \o write_lines(time_series, i + 1)

\* write_json_dataset(time_series, filename): its outcome and the content of
\* the file, which open(filename, 'wb') creates empty before the loop starts
write_json_dataset(time_series, filename) ==
  IF time_series.type # "list"
  THEN [out |-> Raise("TypeError"), data |-> <<>>]
  ELSE [out |-> Return(None), data |-> write_lines(time_series.items, 1)]

-----------------------------------------------------------------------------
(* json_predictor_input and the "future" request cell *)

RECURSIVE instances_of(_, _)
instances_of(input_ts, k) ==
  IF k > Len(input_ts) THEN <<>>
  ELSE <<series_to_json_obj(input_ts[k])>> \o instances_of(input_ts, k + 1)

json_predictor_input(input_ts, num_samples, quantiles) ==
  IF input_ts.type # "list" THEN Raise("TypeError")
  ELSE LET instances     == PyList(instances_of(input_ts.items, 1))
           configuration == PyDict(<< <<"num_samples", num_samples>>,
                                      <<"output_types", PyList(<<PyStr("quantiles")>>)>>,
                                      <<"quantiles", quantiles>> >>)
           request_data  == PyDict(<< <<"instances", instances>>,
                                      <<"configuration", configuration>> >>)
           json_request  == Utf8Encode(JsonDumps(request_data))
       IN  Return(json_request)

\* the cell that prepares the request for 2010: request_data = None
future_request_data == None

future_json_input == Utf8Encode(JsonDumps(future_request_data))

-----------------------------------------------------------------------------
(* json.loads, pd.DataFrame and decode_prediction *)

DictHas(d, key) == \E i \in 1..Len(d.pairs) : d.pairs[i][1] = key

DictGet(d, key) == d.pairs[CHOOSE i \in 1..Len(d.pairs) : d.pairs[i][1] = key][2]

DictKeys(d) == [i \in 1..Len(d.pairs) |-> d.pairs[i][1]]

\* d[key] = v on the pairs of a dict: a repeated key keeps its place and
\* takes the later value
DictPut(pairs, key, v) ==
  IF \E i \in 1..Len(pairs) : pairs[i][1] = key
  THEN [i \in 1..Len(pairs) |-> IF pairs[i][1] = key THEN <<key, v>> ELSE pairs[i]]
  ELSE Append(pairs, <<key, v>>)

RECURSIVE ParseValue(_, _), ParseItems(_, _, _), ParseMembers(_, _, _)
\* the JSON value that starts at token i, and the position after it
ParseValue(toks, i) ==
  LET t == toks[i]
  IN  CASE t.k = "lit" -> [v |-> IF t.s = "null" THEN None ELSE PyNum(NaN), i |-> i + 1]
        [] t.k = "num" -> [v |-> PyNum(t.n), i |-> i + 1]
        [] t.k = "str" -> [v |-> PyStr(t.s), i |-> i + 1]
        [] t = P("[")  -> IF toks[i + 1] = P("]")
                          THEN [v |-> PyList(<<>>), i |-> i + 2]
                          ELSE ParseItems(toks, i + 1, <<>>)
        [] t = P("{")  -> IF toks[i + 1] = P("}")
                          THEN [v |-> PyDict(<<>>), i |-> i + 2]
                          ELSE ParseMembers(toks, i + 1, <<>>)

ParseItems(toks, i, acc) ==
  LET r == ParseValue(toks, i)
  IN  IF toks[r.i] = P(",")
      THEN ParseItems(toks, r.i + 1, Append(acc, r.v))
      ELSE [v |-> PyList(Append(acc, r.v)), i |-> r.i + 1]

ParseMembers(toks, i, acc) ==
  LET key == toks[i].s
      r   == ParseValue(toks, i + 2)
  IN  IF toks[r.i] = P(",")
      THEN ParseMembers(toks, r.i + 1, DictPut(acc, key, r.v))
      ELSE [v |-> PyDict(DictPut(acc, key, r.v)), i |-> r.i + 1]

\* json.loads(text) of a well-formed JSON text
JsonLoads(text) == ParseValue(text, 1).v

\* pd.DataFrame(data=data) with data a dict of lists: one column per key, in
\* the dict's order, one row per list position
DataFrame(data) ==
  LET lens == {Len(data.pairs[i][2].items) : i \in 1..Len(data.pairs)}
  IN  IF Cardinality(lens) > 1 THEN Raise("ValueError")
      ELSE Return([type    |-> "DataFrame",
                   columns |-> DictKeys(data),
                   nrows   |-> IF lens = {} THEN 0 ELSE CHOOSE n \in lens : TRUE,
                   cols    |-> [i \in 1..Len(data.pairs) |->
                                 [r \in 1..Len(data.pairs[i][2].items) |->
                                   data.pairs[i][2].items[r].n]]])

RECURSIVE decode_loop(_, _, _)
decode_loop(predictions, k, prediction_list) ==
  IF k > Len(predictions) THEN Return(PyList(prediction_list))
  ELSE IF predictions[k].type # "dict" THEN Raise("TypeError")
  ELSE IF ~DictHas(predictions[k], "quantiles") THEN Raise("KeyError")
  ELSE LET df == DataFrame(DictGet(predictions[k], "quantiles"))
       IN  IF df.raised THEN df
           ELSE decode_loop(predictions, k + 1, Append(prediction_list, df.value))

\* a loop that starts at the second prediction
decode_prediction_from_second(prediction) ==
  LET prediction_data == JsonLoads(Utf8Decode(prediction))
  IN  IF prediction_data.type # "dict" THEN Raise("TypeError")
      ELSE IF ~DictHas(prediction_data, "predictions") THEN Raise("KeyError")
      ELSE decode_loop(DictGet(prediction_data, "predictions").items, 2, <<>>)

decode_prediction(prediction) ==
  LET prediction_data == JsonLoads(Utf8Decode(prediction))
  IN  IF prediction_data.type # "dict" THEN Raise("TypeError")
      ELSE IF ~DictHas(prediction_data, "predictions") THEN Raise("KeyError")
      ELSE decode_loop(DictGet(prediction_data, "predictions").items, 1, <<>>)

-----------------------------------------------------------------------------
(* txt_preprocessing: create_df and fill_nan_with_mean.  A table is the   *)
(* sequence of its columns, a column the sequence of its cells.  A number *)
(* read from the file is a float num/den with den = 1; the mean of a      *)
(* column is sum/count, and 0/0, the mean of no value, is the missing     *)
(* value.                                                                 *)

Float(n) == [type |-> "float", num |-> n, den |-> 1]

\* the missing value of a table
Missing == [type |-> "float", num |-> 0, den |-> 0]

\* the strings of the file that stand for a missing value
na_values == {"nan", "?"}

Present(c) == c.type = "float" /\ c.den # 0

\* a reader that takes only "nan" for a missing value
create_df_nan_only(table) ==
  [c \in 1..Len(table) |->
    [r \in 1..Len(table[c]) |->
      LET cell == table[c][r]
      IN  IF cell.type = "str"
          THEN (IF cell.s = "nan" THEN Missing ELSE cell)
          ELSE Float(cell.n)]]

\* create_df(text_file, sep=';'): the cells parsed, every sentinel string
\* replaced by the missing value
create_df(table) ==
  [c \in 1..Len(table) |->
    [r \in 1..Len(table[c]) |->
      LET cell == table[c][r]
      IN  IF cell.type = "str"
          THEN (IF cell.s \in na_values THEN Missing ELSE cell)
          ELSE Float(cell.n)]]

RECURSIVE SumPresent(_, _)
SumPresent(column, r) ==
  IF r > Len(column) THEN 0
  ELSE (IF Present(column[r]) THEN column[r].num ELSE 0) + SumPresent(column, r + 1)

\* the mean of a column over its present values
ColumnMean(column) ==
  [type |-> "float",
   num  |-> SumPresent(column, 1),
   den  |-> Cardinality({r \in 1..Len(column) : Present(column[r])})]

\* fill_nan_with_mean(df): every missing cell replaced by its column's mean
fill_nan_with_mean(df) ==
  [c \in 1..Len(df) |->
    [r \in 1..Len(df[c]) |->
      IF df[c][r] = Missing THEN ColumnMean(df[c]) ELSE df[c][r]]]

-----------------------------------------------------------------------------
(* power_df.resample('D').mean().  The index of the minute series is a    *)
(* sequence of timestamps [day, minute] in ascending order; a daily mean  *)
(* is the float sum/count, and the mean of a day without observations is  *)
(* 0/0, the missing value.                                                *)

RECURSIVE SumOfDay(_, _, _)
SumOfDay(power_df, day, j) ==
  IF j > Len(power_df.index) THEN 0
  ELSE (IF power_df.index[j].day = day THEN power_df.values[j] ELSE 0)
       + SumOfDay(power_df, day, j + 1)

\* the mean of the values observed on one day
MeanOfDay(power_df, day) ==
  [type |-> "float",
   num  |-> SumOfDay(power_df, day, 1),
   den  |-> Cardinality({j \in 1..Len(power_df.index) : power_df.index[j].day = day})]

\* the days that have an observation, in ascending order
RECURSIVE ObservedDays(_, _)
ObservedDays(power_df, j) ==
  IF j > Len(power_df.index) THEN <<>>
  ELSE (IF j = 1 \/ power_df.index[j].day # power_df.index[j - 1].day
        THEN <<power_df.index[j].day>> ELSE <<>>)
       \o ObservedDays(power_df, j + 1)

\* a grouping by calendar date: one entry per day that has an observation
resample_observed_days(power_df) ==
  LET days == ObservedDays(power_df, 1)
  IN  Series(days, [i \in 1..Len(days) |-> MeanOfDay(power_df, days[i])])

\* power_df.resample('D').mean(): one bin per day from the day of the first
\* observation to the day of the last, each with the mean of its values
resample(power_df) ==
  IF Len(power_df.index) = 0 THEN Series(<<>>, <<>>)
  ELSE LET first == power_df.index[1].day
           last  == power_df.index[Len(power_df.index)].day
           days  == [i \in 1..(last - first + 1) |-> first + i - 1]
       IN  Series(days, [i \in 1..Len(days) |-> MeanOfDay(power_df, days[i])])

-----------------------------------------------------------------------------
(* The inputs the functions are applied to *)

SeqsUpTo(S, n) == UNION {[1..k -> S] : k \in 0..n}

\* the daily series mean_power_df: n consecutive days from first; the value
\* at position p (from 0) is p, so a value tells where it was read
DailySeries(first, n) ==
  Series([i \in 1..n |-> first + i - 1], [i \in 1..n |-> i - 1])

FirstDay == DayNumber(2006, 12, 16)

Years == {2007, 2008, 2009, 2010, 2012, 2013, 2100}

\* the first days of the daily series make_time_series is applied to: the
\* data set's, and the same day five years on
FirstDays == {FirstDay, DayNumber(2011, 12, 16)}

StartIdxs == {0, 16, 381}

\* the series of up to MaxLen daily values that start at day start
SeriesFrom(start) ==
  UNION {{Series(DatetimeIndex(start, start + n - 1), v) : v \in [1..n -> Vals]}
         : n \in 0..MaxLen}

SeriesLists == SeqsUpTo(SeriesFrom(Jan1(2007)), MaxSeries)

Labels == {"0.1", "0.5", "0.9"}

QuantileLists ==
  {q \in SeqsUpTo(Labels, 3) : \A i, j \in 1..Len(q) : i # j => q[i] # q[j]}

train_key == "json_energy_data/train.json"

test_key == "json_energy_data/test.json"

FileNames == {train_key, test_key}

\* the text file the notebook downloads and unzips
DataFile == "household_power_consumption.txt"

\* the value the endpoint answers for instance k, quantile number qi, day r
Predicted(k, qi, r, seed) == 100 * k + 10 * qi + r + seed

\* the bytes of a quantile response for n instances: per instance the
\* labels returned, each with len predicted values
Response(n, returned, len, seed) ==
  LET quantiles(k) ==
        PyDict([qi \in 1..Len(returned) |->
                 <<returned[qi],
                   PyList([r \in 1..len |-> PyNum(Predicted(k, qi, r, seed))])>>])
      predictions ==
        PyList([k \in 1..n |-> PyDict(<< <<"quantiles", quantiles(k)>> >>)])
  IN  Utf8Encode(JsonDumps(PyDict(<< <<"predictions", predictions>> >>)))

\* the cells of the text file: a number or a sentinel string
RawCells == {PyStr(x) : x \in na_values} \cup {PyNum(v) : v \in Vals}

\* the text tables of up to MaxCols columns and MaxRows rows
RawTables ==
  UNION {[1..nc -> [1..nr -> RawCells]] : nc \in 1..MaxCols, nr \in 0..MaxRows}

\* the timestamps of MaxDays days from FirstDay on, in ascending order: the
\* first and the last minute of each day
Slots ==
  [i \in 1..(2 * MaxDays) |->
    [day |-> FirstDay + (i - 1) \div 2, minute |-> IF i % 2 = 1 THEN 0 ELSE 1439]]

\* the minute series: any of the timestamps may have no record in the file
\* (rec[i] = NaN)
MinuteSeries ==
  {LET kept == SelectSeq([i \in 1..Len(Slots) |-> i], LAMBDA i : rec[i] # NaN)
   IN  Series([j \in 1..Len(kept) |-> Slots[kept[j]]],
              [j \in 1..Len(kept) |-> rec[kept[j]]])
   : rec \in [1..Len(Slots) -> Vals \cup {NaN}]}

-----------------------------------------------------------------------------
(* The values the cells pass to the functions, and the cells that write   *)
(* the JSON files and build the series of 2010                            *)

full_years == <<2007, 2008, 2009>>

default_start_idx == 16

prediction_length_days == 30

start_2010 == 1112

\* what the downloaded archive may hold: the first day and the number of
\* days of its daily means
Datasets ==
  {[first |-> f, n |-> n] : f \in {FirstDay - 1, FirstDay, FirstDay + 1},
                            n \in {start_2010, DfLen - 30, DfLen, DfLen + 30}}

Done(g, fs) == [exc |-> "none", nb |-> g, files |-> fs]

Failed(e, g, fs) == [exc |-> e, nb |-> g, files |-> fs]

\* mean_power_df.values[1112:] under a date range that starts 2010-01-01
ts_2010_of(mean_power_df) ==
  LET data_2010 == SubSeq(mean_power_df.values, start_2010 + 1, Len(mean_power_df.values))
  IN  PyList(<<Series([i \in 1..Len(data_2010) |-> DayNumber(2010, 1, 1) + i - 1],
                      data_2010)>>)

\* the cell that writes train.json, then test.json
write_cell(g, fs) ==
  LET w1  == write_json_dataset(g["time_series_training"], train_key)
      fs1 == [fs EXCEPT ![train_key] = [exists |-> TRUE, data |-> w1.data]]
      w2  == write_json_dataset(g["time_series"], test_key)
      fs2 == [fs1 EXCEPT ![test_key] = [exists |-> TRUE, data |-> w2.data]]
  IN  IF w1.out.raised THEN Failed(w1.out.exc, g, fs1)
      ELSE IF w2.out.raised THEN Failed(w2.out.exc, g, fs2)
      ELSE Done(g, fs2)

-----------------------------------------------------------------------------
(* Spec: each function, and the "future" request cell, applied once *)

NoFile == [exists |-> FALSE, data |-> <<>>]

\* the global names of the notebook the model follows
Names ==
  {"mean_power_df", "time_series", "prediction_length", "time_series_training",
   "json_obj", "train_path", "test_path", "estimator", "json_input", "ts_2010"}

\* a name that no cell has bound yet
Undefined == [type |-> "undefined"]

Init ==
  /\ call = "none"
  /\ args = <<>>
  /\ ret = Return(None)
  /\ files = [f \in FileNames \cup {DataFile} |-> NoFile]
  /\ history = <<>>
  /\ nb = [name \in Names |-> Undefined]

CallMakeTimeSeries ==
  /\ call = "none"
  /\ \E years \in SeqsUpTo(Years, MaxYears), start_idx \in StartIdxs,
        first \in FirstDays :
       /\ call' = "make_time_series"
       /\ args' = [years |-> years, start_idx |-> start_idx, first |-> first]
       /\ ret' = Return(make_time_series(DailySeries(first, DfLen), years, start_idx))
  /\ UNCHANGED <<files, history, nb>>

CallCreateTrainingSeries ==
  /\ call = "none"
  /\ \E ts \in SeriesLists, prediction_length \in 0..(MaxLen + 1) :
       /\ call' = "create_training_series"
       /\ args' = [complete_time_series |-> PyList(ts),
                   prediction_length |-> prediction_length]
       /\ ret' = create_training_series(PyList(ts), prediction_length)
  /\ UNCHANGED <<files, history, nb>>

CallSeriesToJsonObj ==
  /\ call = "none"
  /\ \E y \in Years, m \in {1, 3, 12}, d \in {1, 16, 31} :
     \E ts \in SeriesFrom(DayNumber(y, m, d)) :
       /\ call' = "series_to_json_obj"
       /\ args' = [ts |-> ts]
       /\ ret' = Return(series_to_json_obj(ts))
  /\ UNCHANGED <<files, history, nb>>

CallWriteJsonDataset ==
  /\ call = "none"
  /\ \E ts \in SeriesLists, filename \in FileNames :
       LET w == write_json_dataset(PyList(ts), filename)
       IN  /\ call' = "write_json_dataset"
           /\ args' = [time_series |-> PyList(ts), filename |-> filename]
           /\ ret' = w.out
           /\ files' = [files EXCEPT ![filename] = [exists |-> TRUE, data |-> w.data]]
  /\ UNCHANGED <<history, nb>>

CallJsonPredictorInput ==
  /\ call = "none"
  /\ \E ts \in SeriesLists, num_samples \in {1, 50}, quantiles \in QuantileLists :
       /\ call' = "json_predictor_input"
       /\ args' = [input_ts |-> PyList(ts), num_samples |-> num_samples,
                   quantiles |-> quantiles]
       /\ ret' = json_predictor_input(
                   PyList(ts), PyNum(num_samples),
                   PyList([i \in 1..Len(quantiles) |-> PyStr(quantiles[i])]))
  /\ UNCHANGED <<files, history, nb>>

CallDecodePrediction ==
  /\ call = "none"
  /\ \E n \in 0..MaxSeries, requested \in QuantileLists, returned \in QuantileLists,
        len \in 1..MaxLen, seed \in Vals :
       /\ call' = "decode_prediction"
       /\ args' = [n |-> n, requested |-> requested, returned |-> returned,
                   prediction_length |-> len, seed |-> seed]
       /\ ret' = decode_prediction(Response(n, returned, len, seed))
  /\ UNCHANGED <<files, history, nb>>

FutureRequestCell ==
  /\ call = "none"
  /\ call' = "future_request"
  /\ args' = [start_time |-> "2010-01-01 00:00:00"]
  /\ ret' = Return(future_json_input)
  /\ UNCHANGED <<files, history, nb>>

\* the preprocessing cell: create_df, then fill_nan_with_mean
CallPreprocess ==
  /\ call = "none"
  /\ \E table \in RawTables :
       /\ call' = "fill_nan_with_mean"
       /\ args' = [table |-> table]
       /\ ret' = Return(fill_nan_with_mean(create_df(table)))
  /\ UNCHANGED <<files, history, nb>>

\* the cell that resamples the minute series over days
CallResample ==
  /\ call = "none"
  /\ \E power_df \in MinuteSeries :
       /\ call' = "resample"
       /\ args' = [power_df |-> power_df]
       /\ ret' = Return(resample(power_df))
  /\ UNCHANGED <<files, history, nb>>

\* the cell that builds the series of 2010 from mean_power_df
Ts2010Cell ==
  /\ call = "none"
  /\ \E d \in Datasets :
       /\ call' = "ts_2010"
       /\ args' = [first |-> d.first, n |-> d.n]
       /\ ret' = Return(ts_2010_of(DailySeries(d.first, d.n)))
  /\ UNCHANGED <<files, history, nb>>

\* the cell that writes train.json and test.json, run with the time_series
\* and the time_series_training the cells before it have bound
WriteCell ==
  /\ call = "none"
  /\ \E ts \in SeriesLists, prediction_length \in 0..MaxLen :
       LET training == create_training_series(PyList(ts), prediction_length)
           g == [nb EXCEPT !["time_series"] = PyList(ts),
                           !["prediction_length"] = PyNum(prediction_length),
                           !["time_series_training"] = training.value]
           r == write_cell(g, files)
       IN  /\ call' = "write_cell"
           /\ args' = [time_series |-> PyList(ts),
                       prediction_length |-> prediction_length]
           /\ ret' = IF r.exc = "none" THEN Return(None) ELSE Raise(r.exc)
           /\ files' = r.files
  /\ UNCHANGED <<history, nb>>

Next ==
  \/ CallMakeTimeSeries
  \/ CallCreateTrainingSeries
  \/ CallSeriesToJsonObj
  \/ CallWriteJsonDataset
  \/ CallJsonPredictorInput
  \/ CallDecodePrediction
  \/ FutureRequestCell
  \/ CallPreprocess
  \/ CallResample
  \/ Ts2010Cell
  \/ WriteCell

Spec == Init /\ [][Next]_vars

-----------------------------------------------------------------------------
(* What the claims expect of a JSON record *)

YearOf(t) == CHOOSE y \in 2000..2101 : Jan1(y) <= t /\ t < Jan1(y + 1)

MonthOf(t) ==
  CHOOSE m \in 1..12 :
    /\ DayNumber(YearOf(t), m, 1) <= t
    /\ m < 12 => t < DayNumber(YearOf(t), m + 1, 1)

DayOf(t) == t - DayNumber(YearOf(t), MonthOf(t), 1) + 1

Pad2(n) == IF n < 10 THEN "0" \o ToString(n) ELSE ToString(n)

\* day t at midnight as "YYYY-MM-DD HH:MM:SS"
FormatTimestamp(t) ==
  ToString(YearOf(t)) \o "-" \o Pad2(MonthOf(t)) \o "-" \o Pad2(DayOf(t)) \o " 00:00:00"

KeySet(d) == {d.pairs[i][1] : i \in 1..Len(d.pairs)}

\* obj is the record {start, target} of series ts
IsJsonObjOf(obj, ts) ==
  /\ obj.type = "dict"
  /\ Len(obj.pairs) = 2
  /\ KeySet(obj) = {"start", "target"}
  /\ Len(ts.index) > 0 => DictGet(obj, "start") = PyStr(FormatTimestamp(ts.index[1]))
  /\ DictGet(obj, "target") = PyList([i \in 1..Len(ts.values) |-> PyNum(ts.values[i])])

\* the complete lines of a file, each without its '\n', and what follows
\* the last '\n'
RECURSIVE SplitLines(_, _, _, _)
SplitLines(data, i, line, lines) ==
  IF i > Len(data) THEN [lines |-> lines, rest |-> line]
  ELSE IF data[i] = NL THEN SplitLines(data, i + 1, <<>>, Append(lines, line))
  ELSE SplitLines(data, i + 1, Append(line, data[i]), lines)

-----------------------------------------------------------------------------
(* Claims about the functions, checked under Spec *)

\* C1: when every series has at least prediction_length points,
\* create_training_series returns a list as long as its input whose element i
\* is input series i without its final prediction_length points: a prefix of
\* it that, followed by the removed points, gives the input series back.
C1_TrainingSeriesDropTail ==
  (/\ call = "create_training_series"
   /\ \A i \in 1..Len(args.complete_time_series.items) :
        Len(args.complete_time_series.items[i].values) >= args.prediction_length)
  => /\ ~ret.raised
     /\ ret.value.type = "list"
     /\ Len(ret.value.items) = Len(args.complete_time_series.items)
     /\ \A i \in 1..Len(ret.value.items) :
          LET full  == args.complete_time_series.items[i]
              train == ret.value.items[i]
              keep  == Len(full.values) - args.prediction_length
          IN  /\ train.type = "Series"
              /\ Len(train.values) = keep
              /\ train.values = SubSeq(full.values, 1, keep)
              /\ train.index = SubSeq(full.index, 1, keep)
              /\ train.values \o SubSeq(full.values, keep + 1, Len(full.values))
                   = full.values

C3_JsonObjRecord ==
  (call = "series_to_json_obj" /\ Len(args.ts.values) > 0)
  => /\ ~ret.raised
     /\ IsJsonObjOf(ret.value, args.ts)
     /\ Len(DictGet(ret.value, "target").items) = Len(args.ts.values)
     /\ JsonLoads(JsonDumps(ret.value)) = ret.value

\* C4: write_json_dataset writes one line per series, in order, line i the
\* JSON encoding of series_to_json_obj(series i), every line ended by a
\* newline; an empty list gives an empty file.
C4_OneLinePerSeries ==
  call = "write_json_dataset"
  => LET ts == args.time_series.items
         f  == files[args.filename]
         sp == SplitLines(f.data, 1, <<>>, <<>>)
     IN  /\ ~ret.raised
         /\ f.exists
         /\ sp.rest = <<>>
         /\ Len(sp.lines) = Len(ts)
         /\ \A i \in 1..Len(ts) :
              sp.lines[i] = JsonDumps(series_to_json_obj(ts[i]))
         /\ ts = <<>> => f.data = <<>>

C4_Witness ==
  /\ call = "write_json_dataset"
  /\ Len(args.time_series.items) = 2
  /\ files[args.filename].exists
  /\ Len(SplitLines(files[args.filename].data, 1, <<>>, <<>>).lines) = 2

\* C5: json_predictor_input produces a request with exactly the keys
\* instances and configuration: one {start, target} record per input series
\* in order, and num_samples, output_types = ["quantiles"] and quantiles as
\* given.
C5_PredictorRequest ==
  call = "json_predictor_input"
  => /\ ~ret.raised
     /\ ret.value.type = "bytes"
     /\ LET req == JsonLoads(Utf8Decode(ret.value))
            ts  == args.input_ts.items
        IN  /\ req.type = "dict"
            /\ Len(req.pairs) = 2
            /\ KeySet(req) = {"instances", "configuration"}
            /\ LET instances == DictGet(req, "instances")
                   conf      == DictGet(req, "configuration")
               IN  /\ instances.type = "list"
                   /\ Len(instances.items) = Len(ts)
                   /\ \A k \in 1..Len(ts) : IsJsonObjOf(instances.items[k], ts[k])
                   /\ conf.type = "dict"
                   /\ KeySet(conf) = {"num_samples", "output_types", "quantiles"}
                   /\ DictGet(conf, "num_samples") = PyNum(args.num_samples)
                   /\ DictGet(conf, "output_types") = PyList(<<PyStr("quantiles")>>)
                   /\ DictGet(conf, "quantiles") =
                        PyList([i \in 1..Len(args.quantiles) |-> PyStr(args.quantiles[i])])

\* the response holds, for every instance, exactly the requested labels,
\* and at least one
WellFormed(a) ==
  /\ Len(a.requested) >= 1
  /\ {a.returned[i] : i \in 1..Len(a.returned)}
       = {a.requested[i] : i \in 1..Len(a.requested)}

\* C6: for a well-formed quantile response (every requested quantile, at
\* least one), decode_prediction returns one table per instance, in the
\* response's order, each with one column per requested label and
\* prediction_length rows whose values keep their positions.
C6_DecodeTables ==
  (call = "decode_prediction" /\ WellFormed(args))
  => /\ ~ret.raised
     /\ ret.value.type = "list"
     /\ Len(ret.value.items) = args.n
     /\ \A k \in 1..args.n :
          LET df == ret.value.items[k]
          IN  /\ df.type = "DataFrame"
              /\ Len(df.columns) = Len(args.requested)
              /\ \A q \in 1..Len(args.requested) :
                   \E c \in 1..Len(df.columns) : df.columns[c] = args.requested[q]
              /\ df.nrows = args.prediction_length
              /\ \A c \in 1..Len(df.columns) :
                   LET qi == CHOOSE j \in 1..Len(args.returned) :
                               args.returned[j] = df.columns[c]
                   IN  df.cols[c] = [r \in 1..args.prediction_length |->
                                      Predicted(k, qi, r, args.seed)]

C6_Witness ==
  /\ call = "decode_prediction"
  /\ WellFormed(args)
  /\ args.n = 2
  /\ Len(args.requested) = 3
  /\ args.requested # args.returned
  /\ args.prediction_length = 2
  /\ ~ret.raised
  /\ Len(ret.value.items) = 2
  /\ ret.value.items[2].nrows = 2

\* C7: the "future" request holds exactly one instance, with start
\* "2010-01-01 00:00:00" and an empty target, and a configuration of the
\* batch request's shape.
C7_FutureRequest ==
  call = "future_request"
  => LET req == JsonLoads(Utf8Decode(ret.value))
     IN  /\ req.type = "dict"
         /\ KeySet(req) = {"instances", "configuration"}
         /\ LET instances == DictGet(req, "instances")
                conf      == DictGet(req, "configuration")
            IN  /\ instances.type = "list"
                /\ Len(instances.items) = 1
                /\ instances.items[1].type = "dict"
                /\ KeySet(instances.items[1]) = {"start", "target"}
                /\ DictGet(instances.items[1], "start") = PyStr(args.start_time)
                /\ DictGet(instances.items[1], "target") = PyList(<<>>)
                /\ conf.type = "dict"
                /\ KeySet(conf) = {"num_samples", "output_types", "quantiles"}

\* C8: when some series has fewer than prediction_length points,
\* create_training_series ends in an error and returns nothing.
C8_ShortSeriesRaises ==
  (/\ call = "create_training_series"
   /\ \E i \in 1..Len(args.complete_time_series.items) :
        Len(args.complete_time_series.items[i].values) < args.prediction_length)
  => ret.raised

\* C11: when the response lacks, for some instance, one of the requested
\* quantile keys, decode_prediction ends in an error: it returns no table
\* that misses a requested quantile column.
C11_MissingQuantileRaises ==
  (/\ call = "decode_prediction"
   /\ args.n >= 1
   /\ \E q \in 1..Len(args.requested) :
        \A j \in 1..Len(args.returned) : args.returned[j] # args.requested[q])
  => ret.raised

IsSentinel(cell) == cell.type = "str" /\ cell.s \in {"nan", "?"}

\* in the table df made from table: no cell of column c is a sentinel
NoSentinel(df, c) == \A r \in 1..Len(df[c]) : ~IsSentinel(df[c][r])

\* no cell of column c is missing
NoneMissing(df, c) ==
  \A r \in 1..Len(df[c]) : df[c][r].type = "float" /\ df[c][r].den # 0

\* every cell of column c that held a number in table holds it in df
NumbersKept(table, df, c) ==
  \A r \in 1..Len(table[c]) :
    table[c][r].type = "num"
    => df[c][r].type = "float" /\ df[c][r].num = table[c][r].n * df[c][r].den

SameShape(table, df) ==
  /\ Len(df) = Len(table)
  /\ \A c \in 1..Len(table) : Len(df[c]) = Len(table[c])

Observations(power_df, d) ==
  Cardinality({j \in 1..Len(power_df.index) : power_df.index[j].day = d})

\* the entries the daily series holds for day d
Entries(daily, d) == {i \in 1..Len(daily.index) : daily.index[i] = d}

\* the days a minute series may touch, and one day on either side
DaysAround == (FirstDay - 1)..(FirstDay + MaxDays + 1)

\* C13 as claimed: the daily series holds exactly one entry per calendar day
\* with at least one observation, and no entry for a day with none, also
\* when that day lies between two observed days.
C13_NoEntryForEmptyDay ==
  call = "resample"
  => \A d \in DaysAround :
       Cardinality(Entries(ret.value, d))
         = IF Observations(args.power_df, d) > 0 THEN 1 ELSE 0

\* C13 as amended: the daily series holds exactly one entry per calendar day
\* from the first observed day to the last, in ascending order: the mean of
\* the day's values for a day with at least one observation, the missing
\* value for a day with none; it holds no entry for a day before the first
\* or after the last observed day.
C13_OneEntryPerDayInRange ==
  call = "resample"
  => LET power_df == args.power_df
         daily    == ret.value
         observed == {d \in DaysAround : Observations(power_df, d) > 0}
         InRange(d) == \E a, b \in observed : a <= d /\ d <= b
     IN  /\ ~ret.raised
         /\ Len(daily.values) = Len(daily.index)
         /\ \A i \in 1..(Len(daily.index) - 1) : daily.index[i + 1] = daily.index[i] + 1
         /\ \A d \in DaysAround :
              /\ Cardinality(Entries(daily, d)) = IF InRange(d) THEN 1 ELSE 0
              /\ \A i \in Entries(daily, d) :
                   /\ daily.values[i].den = Observations(power_df, d)
                   /\ daily.values[i].num = SumOfDay(power_df, d, 1)
                   /\ Observations(power_df, d) = 0 => daily.values[i] = Missing

C13_Witness ==
  /\ call = "resample"
  /\ Observations(args.power_df, FirstDay) = 2
  /\ Observations(args.power_df, FirstDay + 1) = 0
  /\ Observations(args.power_df, FirstDay + 2) = 1
  /\ ret.value.index = <<FirstDay, FirstDay + 1, FirstDay + 2>>
  /\ ret.value.values[1] = [type |-> "float", num |-> 1, den |-> 2]
  /\ ret.value.values[2] = Missing

\* the years are consecutive, start_idx is the position of Jan 1 of the
\* first one, and the daily series reaches Dec 31 of the last one
AlignedCall(a) ==
  /\ Len(a.years) >= 1
  /\ \A i \in 1..(Len(a.years) - 1) : a.years[i + 1] = a.years[i] + 1
  /\ a.start_idx = Jan1(a.years[1]) - a.first
  /\ Jan1(a.years[Len(a.years)] + 1) - a.first <= DfLen

\* C14: for consecutive years and start_idx at Jan 1 of the first, in a
\* gap-free daily series, the data slice of every iteration starts at the
\* position of Jan 1 of its year and ends just after the position of its
\* Dec 31, consecutive slices meet without overlap or gap, and every value
\* of a year's series is the value of the day it is labelled with.
C14_SlicesAligned ==
  (call = "make_time_series" /\ AlignedCall(args))
  => LET slices == make_time_series_slices(args.years, 1, args.start_idx)
     IN  \A i \in 1..Len(args.years) :
           /\ slices[i].start_idx = Jan1(args.years[i]) - args.first
           /\ slices[i].end_idx = Jan1(args.years[i] + 1) - args.first
           /\ i > 1 => slices[i].start_idx = slices[i - 1].end_idx
           /\ LET ts == ret.value.items[i]
              IN  \A j \in 1..Len(ts.index) : ts.values[j] = ts.index[j] - args.first

FileRecords(f) ==
  LET lines == SplitLines(f.data, 1, <<>>, <<>>).lines
  IN  [i \in 1..Len(lines) |-> JsonLoads(lines[i])]

\* C17: after the two write_json_dataset calls of the cell, train.json and
\* test.json have the same number of lines; the record of line i of
\* train.json has the start of the record of line i of test.json and, as
\* target, the test target without its final prediction_length values; and
\* test.json holds every series at full length.
C17_TrainTestFiles ==
  (/\ call = "write_cell"
   /\ \A i \in 1..Len(args.time_series.items) :
        Len(args.time_series.items[i].values) >= args.prediction_length)
  => /\ ~ret.raised
     /\ files[train_key].exists
     /\ files[test_key].exists
     /\ LET train == FileRecords(files[train_key])
            test  == FileRecords(files[test_key])
            ts    == args.time_series.items
        IN  /\ Len(train) = Len(test)
            /\ Len(test) = Len(ts)
            /\ \A i \in 1..Len(ts) :
                 /\ IsJsonObjOf(test[i], ts[i])
                 /\ train[i].type = "dict"
                 /\ DictGet(train[i], "start") = DictGet(test[i], "start")
                 /\ DictGet(train[i], "target").items
                      = SubSeq(DictGet(test[i], "target").items, 1,
                               Len(ts[i].values) - args.prediction_length)

-----------------------------------------------------------------------------
(* SpecRun: the notebook's code cells run top to bottom.  An exception     *)
(* that a cell raises is caught nowhere in the notebook: it ends the run.  *)

\* the code cells in notebook order
Cells ==
  << "import numpy pandas", "wget unzip", "display head", "create_df fill_nan",
     "power_df", "plot power", "plot one day", "resample",
     "def make_time_series", "make_time_series", "plot time_series",
     "def create_training_series", "create_training_series", "plot train test",
     "def series_to_json_obj", "series_to_json_obj", "def write_json_dataset",
     "makedirs", "write_json_dataset", "import sagemaker", "session role bucket",
     "upload", "print paths", "image_name", "estimator", "hyperparameters",
     "set_hyperparameters", "fit", "deploy", "def json_predictor_input",
     "predict", "def decode_prediction", "decode_prediction",
     "def display_quantiles", "display_quantiles", "future request",
     "future predict", "ts_2010", "display 2010", "delete_endpoint" >>

\* the cells that are the stages of the pipeline, in its order
Stages ==
  << "make_time_series", "create_training_series", "write_json_dataset", "upload",
     "fit", "deploy", "predict", "decode_prediction" >>

\* what a cell meets outside the kernel: only the download has a choice
External(c) ==
  IF c = "wget unzip"
  THEN {[ok |-> FALSE, first |-> 0, n |-> 0]}
       \cup {[ok |-> TRUE, first |-> d.first, n |-> d.n] : d \in Datasets}
  ELSE {[ok |-> TRUE, first |-> 0, n |-> 0]}

\* cell c run with globals g and files fs
Exec(c, g, fs, ext) ==
  CASE c = "wget unzip" ->
         Done(g, [fs EXCEPT ![DataFile] =
                    [exists |-> ext.ok, data |-> <<ext.first, ext.n>>]])
    [] c = "display head" ->
         IF fs[DataFile].exists THEN Done(g, fs) ELSE Failed("FileNotFoundError", g, fs)
    [] c = "resample" ->
         Done([g EXCEPT !["mean_power_df"] =
                 DailySeries(fs[DataFile].data[1], fs[DataFile].data[2])], fs)
    [] c = "make_time_series" ->
         Done([g EXCEPT !["time_series"] =
                 make_time_series(g["mean_power_df"], full_years, default_start_idx)], fs)
    [] c = "create_training_series" ->
         LET r == create_training_series(g["time_series"], prediction_length_days)
         IN  Done([g EXCEPT !["prediction_length"] = PyNum(prediction_length_days),
                            !["time_series_training"] = r.value], fs)
    [] c = "plot train test" ->
         \* time_series_training[time_series_idx]
         IF g["time_series_training"].type = "list" THEN Done(g, fs)
         ELSE Failed("TypeError", g, fs)
    [] c = "series_to_json_obj" ->
         Done([g EXCEPT !["json_obj"] = series_to_json_obj(g["time_series"].items[1])], fs)
    [] c = "write_json_dataset" -> write_cell(g, fs)
    [] c = "upload" ->
         Done([g EXCEPT !["train_path"] = None, !["test_path"] = None], fs)
    [] c = "print paths" ->
         \* 'Training data is stored in: ' + train_path
         IF g["train_path"].type = "str" THEN Done(g, fs) ELSE Failed("TypeError", g, fs)
    [] c = "estimator" -> Done([g EXCEPT !["estimator"] = None], fs)
    [] c \in {"set_hyperparameters", "fit", "deploy"} ->
         \* estimator is None: it has no attribute to call
         Failed("AttributeError", g, fs)
    [] c = "predict" ->
         \* json_predictor_input(time_series_training), then predictor, a
         \* name only a successful deploy cell binds
         LET r == json_predictor_input(g["time_series_training"], PyNum(50),
                    PyList(<<PyStr("0.1"), PyStr("0.5"), PyStr("0.9")>>))
         IN  IF r.raised THEN Failed(r.exc, g, fs) ELSE Failed("NameError", g, fs)
    [] c \in {"decode_prediction", "display_quantiles", "future predict",
              "display 2010", "delete_endpoint"} ->
         \* json_prediction, prediction_list, predictor, prediction_2010:
         \* names no cell has bound
         Failed("NameError", g, fs)
    [] c = "future request" -> Done([g EXCEPT !["json_input"] = future_json_input], fs)
    [] c = "ts_2010" ->
         Done([g EXCEPT !["ts_2010"] = ts_2010_of(g["mean_power_df"])], fs)
    [] OTHER -> Done(g, fs)

\* a run that goes on after a cell has raised
NeverHalted == FALSE

\* the run has ended: a cell raised, or the last cell is done
Halted ==
  \/ Len(history) = Len(Cells)
  \/ history # <<>> /\ history[Len(history)].exc # "none"

\* the position in Cells of the cell to run next
NextCell == Len(history) + 1

RunCell ==
  /\ ~Halted
  /\ NextCell <= Len(Cells)
  /\ \E ext \in External(Cells[NextCell]) :
       LET r == Exec(Cells[NextCell], nb, files, ext)
       IN  /\ history' = Append(history, [cell |-> Cells[NextCell], exc |-> r.exc])
           /\ nb' = r.nb
           /\ files' = r.files
  /\ UNCHANGED <<call, args, ret>>

NextRun == RunCell

SpecRun == Init /\ [][NextRun]_vars

-----------------------------------------------------------------------------
(* Claims about the run of the notebook, checked under SpecRun *)

\* C15 (a run that deploys the endpoint eventually calls delete_endpoint)
\* has no formula either: estimator is None when the deploy cell is run, so
\* no run deploys an endpoint, and predictor, the name delete_endpoint is
\* called on, is bound by no cell.

\* C10 (a failed remote call is not repeated and stops the run) has no
\* formula: no run reaches a remote call.  The upload cell only binds
\* train_path and test_path to None, estimator is None when fit and deploy
\* are called, predictor is never bound, and every run has ended by the
\* cell "plot train test".

IsStage(c) == \E j \in 1..Len(Stages) : Stages[j] = c

\* the stages started so far, in the order they were started
StagesStarted == SelectSeq([i \in 1..Len(history) |-> history[i].cell], IsStage)

====
